---------------------------- MODULE Spec2Model ----------------------------
(***************************************************************************)
(* CRACEN CTR_DRBG driver (nrfx_cracen_ctr_drbg.c) together with the two   *)
(* drivers it is built on: the TRNG driver (nrfx_cracen_trng.c) and the    *)
(* CryptoMaster AES-ECB driver (nrfx_cracen_cm_aes_ecb.c).                 *)
(*                                                                         *)
(* The driver code is one thread of control: pc is the next statement,     *)
(* stack the return addresses of the C call chain, r the value the last    *)
(* callee returned.  The hardware (noise generator, CryptoMaster) runs     *)
(* beside it: its steps are the Hw... actions.                             *)
(***************************************************************************)
EXTENDS Integers, Sequences, FiniteSets, TLC

(* ---------------------------------------------------------------------- *)
(* Program constants                                                       *)
(* ---------------------------------------------------------------------- *)
MAX_BYTES_PER_REQUEST == 65536
KEY_SIZE == 32
AES_BLK_SZ == 16
ENTROPY_SIZE == KEY_SIZE + AES_BLK_SZ

TRNG_CLK_DIV == 0
TRNG_OFF_TIMER_VAL == 0
TRNG_INIT_WAIT_VAL == 512
TRNG_NUMBER_128BIT_BLOCKS == 4
CONDITIONING_KEY_SIZE == 4

OK == 0
HW_PROCESSING == -1
ERR_TOO_BIG == -2
TRNG_RESET_NEEDED == -5

\* Reset value of RNGCONTROL.FIFOTHRESHOLD (device header, in 128-bit blocks).
FIFOTHRESHOLD_ResetValue == 63

(* ---------------------------------------------------------------------- *)
(* Bounds of the model                                                     *)
(* ---------------------------------------------------------------------- *)
\* public operations called in one behaviour
MaxCalls == 1
\* fetch/push errors the accelerator reports in one behaviour
MaxCmFaults == 1
\* times the noise generator enters its ERROR state in one behaviour
MaxRngErrors == 1
\* 128-bit blocks the modelled output FIFO of the noise generator holds
FifoBlocks == 3
\* leading bytes of the caller's buffer whose contents are recorded
BufWindow == 20
MaxBeLen == 4

(* ---------------------------------------------------------------------- *)
(* 64-bit counter: TLC integers are 32 bits wide, so a uint64_t is held as *)
(* two limbs, value = hi * 2^24 + lo with lo < 2^24.                       *)
(* ---------------------------------------------------------------------- *)
LimbBase == 2^24

U64(hi, lo) == [hi |-> hi, lo |-> lo]

U64Zero == U64(0, 0)

U64One == U64(0, 1)

U64Inc(x) ==
    IF x.lo + 1 = LimbBase THEN U64(x.hi + 1, 0) ELSE U64(x.hi, x.lo + 1)

U64Dec(x) ==
    IF x.lo = 0 THEN U64(x.hi - 1, LimbBase - 1) ELSE U64(x.hi, x.lo - 1)

U64Geq(x, y) == x.hi > y.hi \/ (x.hi = y.hi /\ x.lo >= y.lo)

\* (uint64_t)1 << 48
RESEED_INTERVAL == U64(LimbBase, 0)

(* ---------------------------------------------------------------------- *)
(* Byte arrays                                                             *)
(* ---------------------------------------------------------------------- *)
Zeros(n) == [i \in 1..n |-> 0]

Min(a, b) == IF a < b THEN a ELSE b

RECURSIVE Xor8(_, _, _)
\* a ^ b on the low n bits
Xor8(a, b, n) ==
    IF n = 0 THEN 0
    ELSE ((a + b) % 2) + 2 * Xor8(a \div 2, b \div 2, n - 1)

RECURSIVE BeIncrLoopShort(_, _, _)
\* faulty variant: the loop stops one byte early, the carry never reaches v[0]
BeIncrLoopShort(v, size, add) ==
    LET s == size - 1
        a == add + v[s + 1]
        w == [v EXCEPT ![s + 1] = a % 256]
        c == a \div 256
    IN IF c # 0 /\ s > 1
       THEN CHOOSE res \in {BeIncrLoopShort(st.v, s, st.add) :
                               st \in {[v |-> w, add |-> c]}} : TRUE
       ELSE w

RECURSIVE BeIncrLoop(_, _, _)
\* the do-while of be_incr: size counts down, add carries
BeIncrLoop(v, size, add) ==
    LET s == size - 1
        a == add + v[s + 1]
        w == [v EXCEPT ![s + 1] = a % 256]
        c == a \div 256
    IN IF c # 0 /\ s > 0
       THEN \* the next round starts from the values this round computed
            CHOOSE res \in {BeIncrLoop(st.v, s, st.add) :
                               st \in {[v |-> w, add |-> c]}} : TRUE
       ELSE w

\* faulty variant: the carry out of the last byte is dropped
BeIncrNoCarry(v, size) == [v EXCEPT ![size] = (@ + 1) % 256]

BeIncr(v, size) == BeIncrLoop(v, size, 1)

\* xor_array over size bytes (size a multiple of 4)
XorArray(a, b, size) ==
    [i \in 1..Len(a) |-> IF i <= size THEN Xor8(a[i], b[i], 8) ELSE a[i]]

(* ---------------------------------------------------------------------- *)
(* Hardware data paths.  The silicon is not part of the sources: the block *)
(* cipher and the noise are stood in for by fixed functions, so that equal *)
(* inputs give equal outputs and different inputs (almost always) differ.  *)
(* ---------------------------------------------------------------------- *)
\* the 16 bytes the CryptoMaster pushes for a job with this key and input
CmAesEcb(key, in) ==
    [i \in 1..AES_BLK_SZ |->
        (key[i] + 3 * key[i + AES_BLK_SZ] + 5 * in[i]
           + in[(i % AES_BLK_SZ) + 1] + 7 * i + 1) % 256]

\* the k-th 32-bit word the FIFO delivers (k from 0), least significant byte first
FifoWord(k) ==
    [j \in 1..4 |-> (29 + 37 * k + 11 * j + k * k) % 256]

(* ---------------------------------------------------------------------- *)
(* State                                                                   *)
(* ---------------------------------------------------------------------- *)
VARIABLES
    prng,                  \* static struct cracen_prng_status prng
    conditioning_key_set,  \* static bool of the TRNG driver
    pc, stack, r,          \* next statement, return addresses, last return value
    size, p_buf,           \* get_random: bytes still to produce, destination
    upd,                   \* ctr_drbg_update: data argument, temp, temp_length
    entropy,               \* cracen_ctr_drbg_reseed: char entropy[ENTROPY_SIZE]
    tr,                    \* get_entropy / cracen_trng_get: size, dst, ret
    aes_ret,               \* nrfx_cracen_cm_aes_ecb: ret
    enabled,               \* CRACEN ENABLE register: modules switched on
    rng,                   \* noise generator: fsm, FIFO level, registers
    fifo_rd,               \* words drained from the FIFO so far
    cm,                    \* CryptoMaster: busy bits, pending errors, pushed block
    budget,                \* what is left of MaxCalls, MaxCmFaults, MaxRngErrors
    sizes,                 \* request sizes the callers of this behaviour use
    cur, last,             \* history of the running and of the last finished call
    seeded,                \* history: a reseed completed since prng was zeroed
    run,                   \* history of the two-run comparison (SpecLazy)
    be                     \* be_incr called on its own: v, size, v at entry

drv == <<prng, conditioning_key_set, pc, stack, r, size, p_buf, upd, entropy,
         tr, aes_ret>>

hw == <<enabled, rng, fifo_rd, cm>>

hist == <<cur, last, seeded, run>>

vars == <<prng, conditioning_key_set, pc, stack, r, size, p_buf, upd, entropy,
          tr, aes_ret, enabled, rng, fifo_rd, cm, budget, sizes, cur, last,
          seeded, run, be>>

(* ---------------------------------------------------------------------- *)
(* Initial states                                                          *)
(* ---------------------------------------------------------------------- *)
\* static storage is zero-initialised
PrngZero ==
    [key |-> Zeros(KEY_SIZE), V |-> Zeros(AES_BLK_SZ),
     reseed_counter |-> U64Zero, initialized |-> FALSE]

\* a key and a counter block an earlier update left behind; the counter block
\* is two steps below 2^128, so that the calls of the model wrap it
SeedKey == [i \in 1..KEY_SIZE |-> (13 * i + 5) % 256]

SeedV == [i \in 1..AES_BLK_SZ |-> IF i = AES_BLK_SZ THEN 254 ELSE 255]

\* reseed_counter of a generator that has served requests since its seeding
SeededCounters == {U64One, U64Dec(RESEED_INTERVAL), RESEED_INTERVAL}

\* what an init() leaves whose first block cipher call failed
PrngFailedInit == [PrngZero EXCEPT !.V = BeIncr(@, AES_BLK_SZ)]

PrngStates ==
    {PrngZero, PrngFailedInit} \cup
    {[key |-> SeedKey, V |-> SeedV, reseed_counter |-> c, initialized |-> TRUE] :
        c \in SeededCounters}

\* the destination of get_random: NULL or not, bytes written, leading contents
BufAt(null) == [null |-> null, off |-> 0, mem |-> <<>>]

UpdIdle == [data |-> "none", temp |-> <<>>, temp_length |-> 0]

TrIdle == [size |-> 0, dst |-> <<>>, ret |-> 0]

RngOff ==
    [fsm |-> "RESET", level |-> 0, enable |-> FALSE, key |-> <<>>,
     off_timer |-> 0, clk_div |-> 0, init_wait |-> 0, blocks |-> 0]

CmIdle == [busy |-> {}, pending |-> {}, out |-> <<>>]

CallNone ==
    [op |-> "none", size |-> 0, null |-> FALSE, ret |-> 0, entry |-> PrngZero,
     n_entropy |-> 0, n_aes |-> 0, n_out |-> 0, ent_at_out |-> -1,
     fault_at |-> 0, v_base |-> <<>>, n_since |-> 0, rebased |-> FALSE,
     hw_used |-> FALSE, hw_entry |-> <<>>, upd_entry |-> <<>>, upd_at |-> 0,
     n_inits |-> 0, rd_at_init |-> 0, n_keys |-> 0]

RunNone ==
    [phase |-> "off", first |-> <<>>, log |-> <<>>, size |-> 0,
     init_ret |-> 0, init_fault |-> FALSE]

SmallSizes == {0, AES_BLK_SZ, AES_BLK_SZ + 1, MAX_BYTES_PER_REQUEST + 1}

BoundarySizes == {1, MAX_BYTES_PER_REQUEST, MAX_BYTES_PER_REQUEST + 1}

EntropySizes ==
    {0, 5, ENTROPY_SIZE, (FIFOTHRESHOLD_ResetValue + 1) * 16,
     (FIFOTHRESHOLD_ResetValue + 1) * 16 + 1}

\* be_incr is not being called on its own
BeIdle == [v |-> <<>>, size |-> 0, entry |-> <<>>, done |-> FALSE]

InitCommon ==
    /\ conditioning_key_set = FALSE
    /\ pc = "idle" /\ stack = <<>> /\ r = 0
    /\ size = 0 /\ p_buf = BufAt(TRUE)
    /\ upd = UpdIdle /\ entropy = <<>>
    /\ tr = TrIdle /\ aes_ret = 0
    /\ enabled = {} /\ rng = RngOff /\ fifo_rd = 0 /\ cm = CmIdle
    /\ cur = CallNone /\ last = CallNone

Init ==
    /\ InitCommon
    /\ prng \in PrngStates
    /\ seeded = prng.initialized
    /\ budget = [calls |-> MaxCalls, cmFaults |-> MaxCmFaults,
                 rngErrors |-> MaxRngErrors]
    /\ sizes = SmallSizes
    /\ be = BeIdle
    /\ run = RunNone

(* ---------------------------------------------------------------------- *)
(* Control: statements, calls and returns.  c is the history of the        *)
(* running call after the step.                                            *)
(* ---------------------------------------------------------------------- *)
Goto(l, c) ==
    /\ pc' = l
    /\ cur' = c
    /\ UNCHANGED <<stack, r, last>>

Call(l, back, c) ==
    /\ pc' = l
    /\ stack' = <<back>> \o stack
    /\ cur' = c
    /\ UNCHANGED <<r, last>>

\* return v to the caller; the outermost return ends the public operation
Ret(v, c) ==
    /\ r' = v
    /\ IF stack = <<>>
       THEN /\ pc' = "idle"
            /\ stack' = stack
            /\ last' = [c EXCEPT !.ret = v]
            /\ cur' = CallNone
       ELSE /\ pc' = Head(stack)
            /\ stack' = Tail(stack)
            /\ cur' = c
            /\ last' = last

\* an event of the two-run comparison, recorded only while it is running
Logged(e) == IF run.phase = "off" THEN run ELSE [run EXCEPT !.log = Append(@, e)]

(* ---------------------------------------------------------------------- *)
(* Callers: the public operations are called from the idle state; last,   *)
(* the history of the call before, is dropped                              *)
(* ---------------------------------------------------------------------- *)
Entered(op, sz, null) ==
    [CallNone EXCEPT !.op = op, !.size = sz, !.null = null, !.entry = prng,
                     !.v_base = prng.V,
                     !.hw_entry = <<enabled, rng, fifo_rd, cm>>]

CallInit ==
    /\ pc = "idle" /\ budget.calls > 0
    /\ budget' = [budget EXCEPT !.calls = @ - 1]
    /\ pc' = "in_entry"
    /\ cur' = Entered("init", 0, FALSE)
    /\ last' = CallNone
    /\ UNCHANGED <<prng, conditioning_key_set, stack, r, size, p_buf, upd,
                   entropy, tr, aes_ret, hw, sizes, be, seeded, run>>

CallGetRandom ==
    /\ pc = "idle" /\ budget.calls > 0
    /\ \E null \in BOOLEAN, sz \in sizes :
          /\ size' = sz
          /\ p_buf' = BufAt(null)
          /\ cur' = Entered("get_random", sz, null)
    /\ budget' = [budget EXCEPT !.calls = @ - 1]
    /\ pc' = "gr_entry"
    /\ last' = CallNone
    /\ UNCHANGED <<prng, conditioning_key_set, stack, r, upd, entropy, tr,
                   aes_ret, hw, sizes, be, seeded, run>>

CallGetEntropy ==
    /\ pc = "idle" /\ budget.calls > 0
    /\ \E sz \in EntropySizes :
          /\ tr' = [size |-> sz, dst |-> <<>>, ret |-> 0]
          /\ cur' = Entered("get_entropy", sz, FALSE)
    /\ budget' = [budget EXCEPT !.calls = @ - 1]
    /\ pc' = "ge_entry"
    /\ last' = CallNone
    /\ UNCHANGED <<prng, conditioning_key_set, stack, r, size, p_buf, upd,
                   entropy, aes_ret, hw, sizes, be, seeded, run>>

(* ---------------------------------------------------------------------- *)
(* TRNG driver: nrfx_cracen_rng_get_entropy and its helpers                *)
(* ---------------------------------------------------------------------- *)
\* faulty variant: >= in place of >
TooBigAtBound(sz) == sz >= (FIFOTHRESHOLD_ResetValue + 1) * 16

\* the size check of nrfx_cracen_rng_get_entropy
TooBig(sz) == sz > (FIFOTHRESHOLD_ResetValue + 1) * 16

\* faulty variant: the flag survives the re-initialisation
KeySetKept(k) == k

\* conditioning_key_set = false, the first statement of cracen_trng_init
KeySetAfterInit(k) == FALSE

\* the history of the call after a cracen_trng_init: one more, the FIFO read
\* position it happened at, no key programmed since
TrngInited(c) ==
    [c EXCEPT !.n_inits = @ + 1, !.rd_at_init = fifo_rd, !.n_keys = 0]

\* the registers after cracen_trng_init: soft reset, then configure and enable
TrngInitRegs(g) ==
    [g EXCEPT !.fsm = "RESET", !.level = 0,
              !.off_timer = TRNG_OFF_TIMER_VAL,
              !.clk_div = TRNG_CLK_DIV,
              !.init_wait = TRNG_INIT_WAIT_VAL,
              !.blocks = TRNG_NUMBER_128BIT_BLOCKS,
              !.enable = TRUE]

RECURSIVE TrngDrain(_, _, _)
\* the copy loop of cracen_trng_get: one FIFO word per 4 bytes, low byte first
TrngDrain(dst, sz, k) ==
    IF sz = 0 THEN dst
    ELSE LET data == FifoWord(k)
             n == Min(4, sz)
         IN TrngDrain(dst \o SubSeq(data, 1, n), sz - n, k + 1)

WordsFor(sz) == (sz + 3) \div 4

\* what follows one poll (ret = cracen_trng_get(...)) in the while (true) of
\* nrfx_cracen_rng_get_entropy: break, disable the module and return OK; or go
\* round, through cracen_trng_init when the poll asked for a reset.  g and k
\* are the registers and conditioning_key_set the poll left.
GePolled(ret, dst, g, k) ==
    /\ tr' = [tr EXCEPT !.ret = ret, !.dst = dst]
    /\ IF ret = OK
       THEN /\ enabled' = enabled \ {"RNG"}
            /\ rng' = g
            /\ conditioning_key_set' = k
            /\ Ret(OK, cur)
            /\ run' = Logged(<<"entropy", dst>>)
       ELSE /\ enabled' = enabled
            /\ rng' = IF ret = TRNG_RESET_NEEDED THEN TrngInitRegs(g) ELSE g
            /\ conditioning_key_set' =
                  IF ret = TRNG_RESET_NEEDED THEN KeySetAfterInit(k) ELSE k
            /\ Goto("tg_fsm", IF ret = TRNG_RESET_NEEDED THEN TrngInited(cur)
                              ELSE cur)
            /\ run' = run

\* entry of nrfx_cracen_rng_get_entropy: size check, module enable,
\* ret = TRNG_RESET_NEEDED, and the first cracen_trng_init of the loop
GeEntry ==
    /\ pc = "ge_entry"
    /\ LET c == [cur EXCEPT !.n_entropy = @ + 1] IN
       IF TooBig(tr.size)
       THEN /\ Ret(ERR_TOO_BIG, c)
            /\ tr' = TrIdle
            /\ UNCHANGED <<enabled, rng, conditioning_key_set>>
       ELSE /\ Goto("tg_fsm", TrngInited([c EXCEPT !.hw_used = TRUE]))
            /\ tr' = [tr EXCEPT !.ret = TRNG_RESET_NEEDED]
            /\ enabled' = enabled \cup {"RNG"}
            /\ conditioning_key_set' = KeySetAfterInit(conditioning_key_set)
            /\ rng' = TrngInitRegs(rng)
    /\ UNCHANGED <<prng, size, p_buf, upd, entropy, aes_ret, fifo_rd, cm,
                   budget, sizes, be, seeded, run>>

\* faulty variant: ERROR waited out like RESET, no reset asked for
StateCheckNoReset(fsm) ==
    IF fsm \in {"ERROR", "RESET"} THEN HW_PROCESSING ELSE OK

\* the switch on the FSM state: what cracen_trng_get returns there, OK standing
\* for the break that lets it go on
StateCheck(fsm) ==
    IF fsm = "ERROR" THEN TRNG_RESET_NEEDED
    ELSE IF fsm = "RESET" THEN HW_PROCESSING
    ELSE OK

\* cracen_trng_get: the switch on the FSM state
TgFsm ==
    /\ pc = "tg_fsm"
    /\ IF StateCheck(rng.fsm) # OK
       THEN GePolled(StateCheck(rng.fsm), tr.dst, rng, conditioning_key_set)
       ELSE /\ Goto(IF conditioning_key_set THEN "tg_level" ELSE "tg_key", cur)
            /\ UNCHANGED <<tr, enabled, rng, conditioning_key_set, run>>
    /\ UNCHANGED <<prng, size, p_buf, upd, entropy, aes_ret, fifo_rd, cm,
                   budget, sizes, be, seeded>>

\* faulty variant: the key taken from the FIFO without looking at its level
KeyNotReadyNever(level) == FALSE

\* if (level < CONDITIONING_KEY_SIZE) return HW_PROCESSING
KeyNotReady(level) == level < CONDITIONING_KEY_SIZE

\* cracen_trng_setup_conditioning_key
TgKey ==
    /\ pc = "tg_key"
    /\ IF KeyNotReady(rng.level)
       THEN /\ GePolled(HW_PROCESSING, tr.dst, rng, conditioning_key_set)
            /\ fifo_rd' = fifo_rd
       ELSE /\ rng' = [rng EXCEPT
                          !.level = @ - CONDITIONING_KEY_SIZE,
                          !.key = [i \in 1..CONDITIONING_KEY_SIZE |->
                                      FifoWord(fifo_rd + i - 1)]]
            /\ fifo_rd' = fifo_rd + CONDITIONING_KEY_SIZE
            /\ conditioning_key_set' = TRUE
            /\ Goto("tg_level", [cur EXCEPT !.n_keys = @ + 1])
            /\ UNCHANGED <<tr, enabled, run>>
    /\ UNCHANGED <<prng, size, p_buf, upd, entropy, aes_ret, cm, budget,
                   sizes, be, seeded>>

\* cracen_trng_get: the FIFO level check and the copy loop
TgLevel ==
    /\ pc = "tg_level"
    /\ IF tr.size > rng.level * 4
       THEN /\ GePolled(HW_PROCESSING, tr.dst, rng, conditioning_key_set)
            /\ fifo_rd' = fifo_rd
       ELSE /\ GePolled(OK, TrngDrain(<<>>, tr.size, fifo_rd),
                        [rng EXCEPT !.level = @ - WordsFor(tr.size)],
                        conditioning_key_set)
            /\ fifo_rd' = fifo_rd + WordsFor(tr.size)
    /\ UNCHANGED <<prng, size, p_buf, upd, entropy, aes_ret, cm, budget,
                   sizes, be, seeded>>

(* ---------------------------------------------------------------------- *)
(* Noise generator hardware                                                *)
(* ---------------------------------------------------------------------- *)
RngClocked == "RNG" \in enabled /\ rng.enable

HwRngStartup ==
    /\ RngClocked /\ rng.fsm = "RESET"
    /\ rng' = [rng EXCEPT !.fsm = "STARTUP"]
    /\ UNCHANGED <<drv, enabled, fifo_rd, cm, budget, sizes, be, hist>>

HwRngRun ==
    /\ RngClocked /\ rng.fsm = "STARTUP"
    /\ rng' = [rng EXCEPT !.fsm = "RUNNING"]
    /\ UNCHANGED <<drv, enabled, fifo_rd, cm, budget, sizes, be, hist>>

\* the conditioner delivers one 128-bit block, 4 words, to the FIFO
HwRngFill ==
    /\ RngClocked /\ rng.fsm = "RUNNING" /\ rng.level + 4 <= 4 * FifoBlocks
    /\ rng' = [rng EXCEPT !.level = @ + 4]
    /\ UNCHANGED <<drv, enabled, fifo_rd, cm, budget, sizes, be, hist>>

\* a start-up or health test fails
HwRngError ==
    /\ RngClocked /\ rng.fsm \in {"STARTUP", "RUNNING"}
    /\ budget.rngErrors > 0
    /\ rng' = [rng EXCEPT !.fsm = "ERROR"]
    /\ budget' = [budget EXCEPT !.rngErrors = @ - 1]
    /\ UNCHANGED <<drv, enabled, fifo_rd, cm, sizes, be, hist>>

(* ---------------------------------------------------------------------- *)
(* CryptoMaster AES-ECB driver: nrfx_cracen_cm_aes_ecb                     *)
(* ---------------------------------------------------------------------- *)
CmErrorMask == {"FETCH_ERROR", "PUSH_ERROR"}

CmBusyMask == {"BUSY_FETCH", "BUSY_PUSH", "PUSH_WAITING"}

\* faulty variant: the busy bits looked at before the error bits
CmCheckDoneBusyFirst(c) ==
    IF c.busy \cap CmBusyMask # {} THEN -1
    ELSE IF c.pending \cap CmErrorMask # {} THEN -2
    ELSE 0

\* cracen_cm_check_done: 0 done, -1 busy, -2 error
CmCheckDone(c) ==
    IF c.pending \cap CmErrorMask # {} THEN -2
    ELSE IF c.busy \cap CmBusyMask # {} THEN -1
    ELSE 0

\* nrfx_cracen_cm_aes_ecb(prng.key, sizeof(prng.key), prng.V, out) up to
\* nrf_cracen_cm_start: descriptors built (they point at prng.key and prng.V),
\* module enabled, job started.  back is where the caller goes on.
AesCall(back, c) ==
    /\ enabled' = enabled \cup {"CRYPTOMASTER"}
    /\ cm' = [busy |-> {"BUSY_FETCH", "PUSH_WAITING"}, pending |-> {}, out |-> <<>>]
    /\ Call("aes_poll", back, [c EXCEPT !.n_aes = @ + 1, !.n_since = @ + 1,
                                        !.hw_used = TRUE])
    /\ run' = Logged(<<"aes", prng'.key, prng'.V>>)

\* faulty variant: an error returns before the module is disabled
AfterAesLeak(e, ret) == IF ret = 0 THEN e \ {"CRYPTOMASTER"} ELSE e

\* the ENABLE register after nrf_cracen_module_disable(CRYPTOMASTER) at the
\* end of nrfx_cracen_cm_aes_ecb, whatever ret is
AfterAes(e, ret) == e \ {"CRYPTOMASTER"}

\* one round of the do-while: ret = cracen_cm_check_done(); while (ret == -1);
\* after it the soft reset of the core, the module disable and the return
AesPoll ==
    /\ pc = "aes_poll"
    /\ IF CmCheckDone(cm) = -1
       THEN /\ aes_ret' = -1
            /\ Goto("aes_poll", cur)
            /\ UNCHANGED <<cm, enabled>>
       ELSE /\ aes_ret' = 0
            /\ cm' = [cm EXCEPT !.busy = {}, !.pending = {}]
            /\ enabled' = AfterAes(enabled, CmCheckDone(cm))
            /\ Ret(CmCheckDone(cm), cur)
    /\ UNCHANGED <<prng, conditioning_key_set, size, p_buf, upd, entropy, tr,
                   rng, fifo_rd, budget, sizes, be, seeded, run>>

(* ---------------------------------------------------------------------- *)
(* CryptoMaster hardware                                                   *)
(* ---------------------------------------------------------------------- *)
CmClocked == "CRYPTOMASTER" \in enabled

\* the fetcher has read the descriptor chain: config, key, input block
HwCmFetchDone ==
    /\ CmClocked /\ "BUSY_FETCH" \in cm.busy /\ cm.pending = {}
    /\ cm' = [cm EXCEPT !.busy = {"BUSY_PUSH"}]
    /\ UNCHANGED <<drv, enabled, rng, fifo_rd, budget, sizes, be, hist>>

\* the pusher has written the 16 bytes of the result to the output descriptor
HwCmPushDone ==
    /\ CmClocked /\ cm.busy = {"BUSY_PUSH"} /\ cm.pending = {}
    /\ cm' = [cm EXCEPT !.busy = {}, !.out = CmAesEcb(prng.key, prng.V)]
    /\ UNCHANGED <<drv, enabled, rng, fifo_rd, budget, sizes, be, hist>>

Faulted(c) == IF c.fault_at = 0 THEN [c EXCEPT !.fault_at = c.n_aes] ELSE c

\* a bus error while fetching; the busy bits stay as they are
HwCmFetchError ==
    /\ CmClocked /\ "BUSY_FETCH" \in cm.busy /\ "FETCH_ERROR" \notin cm.pending
    /\ budget.cmFaults > 0
    /\ cm' = [cm EXCEPT !.pending = @ \cup {"FETCH_ERROR"}]
    /\ budget' = [budget EXCEPT !.cmFaults = @ - 1]
    /\ cur' = Faulted(cur)
    /\ UNCHANGED <<drv, enabled, rng, fifo_rd, sizes, be, last, seeded, run>>

\* a bus error while pushing
HwCmPushError ==
    /\ CmClocked /\ "BUSY_PUSH" \in cm.busy /\ "PUSH_ERROR" \notin cm.pending
    /\ budget.cmFaults > 0
    /\ cm' = [cm EXCEPT !.pending = @ \cup {"PUSH_ERROR"}]
    /\ budget' = [budget EXCEPT !.cmFaults = @ - 1]
    /\ cur' = Faulted(cur)
    /\ UNCHANGED <<drv, enabled, rng, fifo_rd, sizes, be, last, seeded, run>>

(* ---------------------------------------------------------------------- *)
(* DRBG: ctr_drbg_update                                                   *)
(* ---------------------------------------------------------------------- *)
\* r = nrfx_cracen_cm_aes_ecb(...); if (r != 0)
AesFailed(rv) == rv # 0

\* faulty variant: the return value of the accelerator driver handed on
GenericFailureOf(rv) == rv

\* return -1, whatever r the accelerator driver returned
GenericFailure(rv) == -1

\* faulty variant: the increment made on a copy, prng.V left alone
SteppedOnCopy(p) == p

\* be_incr(prng.V, AES_BLK_SZ)
Stepped(p) == [p EXCEPT !.V = BeIncr(@, AES_BLK_SZ)]

\* faulty variant: V copied from the start of temp, where the key bytes are
CommittedOverlap(p, t) ==
    [p EXCEPT !.key = SubSeq(t, 1, KEY_SIZE), !.V = SubSeq(t, 1, AES_BLK_SZ)]

\* the two memcpy out of temp at the end of ctr_drbg_update
Committed(p, t) ==
    [p EXCEPT !.key = SubSeq(t, 1, KEY_SIZE),
              !.V = SubSeq(t, KEY_SIZE + 1, KEY_SIZE + AES_BLK_SZ)]

UpdStart(data) == [data |-> data, temp |-> <<>>, temp_length |-> 0]

\* the history of the call when it enters ctr_drbg_update: key and V as the
\* update finds them, and the block cipher invocations made before it
UpdEntered(c) ==
    [c EXCEPT !.upd_entry = [key |-> prng.key, V |-> prng.V], !.upd_at = c.n_aes]

\* while (temp_length < sizeof(temp)) { be_incr; aes } ... xor, commit, return 0
UpLoop ==
    /\ pc = "up_loop"
    /\ IF upd.temp_length < ENTROPY_SIZE
       THEN /\ prng' = Stepped(prng)
            /\ AesCall("up_after_aes", cur)
            /\ upd' = upd
            /\ UNCHANGED <<rng, fifo_rd>>
       ELSE /\ LET t == IF upd.data = "entropy"
                        THEN XorArray(upd.temp, entropy, ENTROPY_SIZE)
                        ELSE upd.temp
               IN /\ prng' = Committed(prng, t)
                  /\ Ret(0, [cur EXCEPT !.v_base = prng'.V, !.n_since = 0,
                                        !.rebased = TRUE])
            /\ upd' = UpdIdle
            /\ UNCHANGED <<hw, run>>
    /\ UNCHANGED <<conditioning_key_set, size, p_buf, entropy, tr, aes_ret,
                   budget, sizes, be, seeded>>

\* if (r != 0) return -1; temp_length += AES_BLK_SZ
UpAfterAes ==
    /\ pc = "up_after_aes"
    /\ IF AesFailed(r)
       THEN /\ Ret(GenericFailure(r), cur)
            /\ upd' = UpdIdle
       ELSE /\ Goto("up_loop", cur)
            /\ upd' = [upd EXCEPT !.temp = @ \o cm.out,
                                  !.temp_length = @ + AES_BLK_SZ]
    /\ cm' = [cm EXCEPT !.out = <<>>]
    /\ UNCHANGED <<prng, conditioning_key_set, size, p_buf, entropy, tr,
                   aes_ret, enabled, rng, fifo_rd, budget, sizes, be, seeded, run>>

(* ---------------------------------------------------------------------- *)
(* DRBG: cracen_ctr_drbg_reseed                                            *)
(* ---------------------------------------------------------------------- *)
\* faulty variant: the reseed starts from a zeroed struct, as init does
ReseededFromZero(p) ==
    [PrngZero EXCEPT !.key = p.key, !.V = p.V, !.reseed_counter = U64One]

\* faulty variant: the counter is not set back
ReseededKeepsCount(p) == p

\* prng.reseed_counter = 1
Reseeded(p) == [p EXCEPT !.reseed_counter = U64One]

RsEntry ==
    /\ pc = "rs_entry"
    /\ tr' = [size |-> ENTROPY_SIZE, dst |-> <<>>, ret |-> 0]
    /\ Call("ge_entry", "rs_after_entropy", cur)
    /\ UNCHANGED <<prng, conditioning_key_set, size, p_buf, upd, entropy,
                   aes_ret, hw, budget, sizes, be, seeded, run>>

RsAfterEntropy ==
    /\ pc = "rs_after_entropy"
    /\ IF r # 0
       THEN /\ Ret(-1, cur)
            /\ UNCHANGED <<entropy, upd>>
       ELSE /\ entropy' = tr.dst
            /\ upd' = UpdStart("entropy")
            /\ Call("up_loop", "rs_after_update", UpdEntered(cur))
    /\ tr' = TrIdle
    /\ UNCHANGED <<prng, conditioning_key_set, size, p_buf, aes_ret, hw,
                   budget, sizes, be, seeded, run>>

RsAfterUpdate ==
    /\ pc = "rs_after_update"
    /\ IF r # 0
       THEN /\ Ret(-1, cur)
            /\ UNCHANGED <<prng, seeded>>
       ELSE /\ prng' = Reseeded(prng)
            /\ seeded' = TRUE
            /\ Ret(0, cur)
    /\ entropy' = <<>>
    /\ UNCHANGED <<conditioning_key_set, size, p_buf, upd, tr, aes_ret, hw,
                   budget, sizes, be, run>>

(* ---------------------------------------------------------------------- *)
(* DRBG: nrfx_cracen_ctr_drbg_init                                         *)
(* ---------------------------------------------------------------------- *)
\* memset(&prng, 0, sizeof(prng))
Zeroed(p) == PrngZero

\* faulty variant: the flag set before the result of the reseed is looked at
InitDoneAnyway(p, rv) == [p EXCEPT !.initialized = TRUE]

\* if (r != 0) return r; prng.initialized = 1
InitDone(p, rv) == IF rv # 0 THEN p ELSE [p EXCEPT !.initialized = TRUE]

InEntry ==
    /\ pc = "in_entry"
    /\ prng' = Zeroed(prng)
    /\ seeded' = FALSE
    /\ Call("rs_entry", "in_after_reseed",
            [cur EXCEPT !.v_base = prng'.V, !.n_since = 0, !.rebased = TRUE])
    /\ UNCHANGED <<conditioning_key_set, size, p_buf, upd, entropy, tr,
                   aes_ret, hw, budget, sizes, be, run>>

InAfterReseed ==
    /\ pc = "in_after_reseed"
    /\ prng' = InitDone(prng, r)
    /\ Ret(IF r # 0 THEN r ELSE 0, cur)
    /\ UNCHANGED <<conditioning_key_set, size, p_buf, upd, entropy, tr,
                   aes_ret, hw, budget, sizes, be, seeded, run>>

(* ---------------------------------------------------------------------- *)
(* DRBG: nrfx_cracen_ctr_drbg_get_random                                   *)
(* ---------------------------------------------------------------------- *)
\* faulty variant: the size limit applied one byte early
InvalidInputAtLimit(null, sz) ==
    (sz > 0 /\ null) \/ sz >= MAX_BYTES_PER_REQUEST

\* faulty variant: a NULL destination refused whatever the size
InvalidInputAnyNull(null, sz) ==
    null \/ sz > MAX_BYTES_PER_REQUEST

\* the two input checks
InvalidInput(null, sz) ==
    (sz > 0 /\ null) \/ sz > MAX_BYTES_PER_REQUEST

\* faulty variant: the lazy initialisation left out
NeedsInitNever(p) == FALSE

\* if (!prng.initialized)
NeedsInit(p) == ~p.initialized

\* faulty variant: > in place of >=
ReseedDueLate(p) ==
    U64Geq(p.reseed_counter, RESEED_INTERVAL) /\ p.reseed_counter # RESEED_INTERVAL

\* if (prng.reseed_counter >= RESEED_INTERVAL)
ReseedDue(p) == U64Geq(p.reseed_counter, RESEED_INTERVAL)

\* faulty variant: a served request counted twice
ServedTwice(p) == [p EXCEPT !.reseed_counter = U64Inc(U64Inc(@))]

\* prng.reseed_counter += 1
Served(p) == [p EXCEPT !.reseed_counter = U64Inc(@)]

\* faulty variant: a whole block copied whatever is left to write
CurLenWhole(sz) == AES_BLK_SZ

\* cur_len = (size < AES_BLK_SZ) ? size : AES_BLK_SZ
CurLen(sz) == IF sz < AES_BLK_SZ THEN sz ELSE AES_BLK_SZ

\* memcpy(p_buf, temp, cur_len); p_buf += cur_len
Copied(b, bytes) ==
    [b EXCEPT !.off = @ + Len(bytes),
              !.mem = IF b.off >= BufWindow THEN @
                      ELSE SubSeq(@ \o bytes, 1,
                                  Min(BufWindow, b.off + Len(bytes)))]

GrEntry ==
    /\ pc = "gr_entry"
    /\ IF InvalidInput(p_buf.null, size)
       THEN /\ Ret(-2, cur)
            /\ size' = 0
       ELSE /\ Goto("gr_init_chk", cur)
            /\ size' = size
    /\ UNCHANGED <<prng, conditioning_key_set, p_buf, upd, entropy, tr,
                   aes_ret, hw, budget, sizes, be, seeded, run>>

GrInitChk ==
    /\ pc = "gr_init_chk"
    /\ IF NeedsInit(prng)
       THEN Call("in_entry", "gr_after_init", cur)
       ELSE Goto("gr_reseed_chk", cur)
    /\ UNCHANGED <<prng, conditioning_key_set, size, p_buf, upd, entropy, tr,
                   aes_ret, hw, budget, sizes, be, seeded, run>>

GrAfterInit ==
    /\ pc = "gr_after_init"
    /\ IF r # 0
       THEN /\ Ret(-1, cur)
            /\ size' = 0
       ELSE /\ Goto("gr_reseed_chk", cur)
            /\ size' = size
    /\ UNCHANGED <<prng, conditioning_key_set, p_buf, upd, entropy, tr,
                   aes_ret, hw, budget, sizes, be, seeded, run>>

GrReseedChk ==
    /\ pc = "gr_reseed_chk"
    /\ IF ReseedDue(prng)
       THEN Call("rs_entry", "gr_after_reseed", cur)
       ELSE Goto("gr_loop", cur)
    /\ UNCHANGED <<prng, conditioning_key_set, size, p_buf, upd, entropy, tr,
                   aes_ret, hw, budget, sizes, be, seeded, run>>

GrAfterReseed ==
    /\ pc = "gr_after_reseed"
    /\ IF r # 0
       THEN /\ Ret(-1, cur)
            /\ size' = 0
       ELSE /\ Goto("gr_loop", cur)
            /\ size' = size
    /\ UNCHANGED <<prng, conditioning_key_set, p_buf, upd, entropy, tr,
                   aes_ret, hw, budget, sizes, be, seeded, run>>

\* while (size > 0) { be_incr; aes ... }  then  r = ctr_drbg_update(NULL)
GrLoop ==
    /\ pc = "gr_loop"
    /\ IF size > 0
       THEN /\ prng' = Stepped(prng)
            /\ AesCall("gr_after_aes",
                       [cur EXCEPT !.n_out = @ + 1,
                                   !.ent_at_out = IF cur.n_out = 0
                                                  THEN cur.n_entropy ELSE @])
            /\ upd' = upd
            /\ UNCHANGED <<rng, fifo_rd>>
       ELSE /\ prng' = prng
            /\ upd' = UpdStart("NULL")
            /\ Call("up_loop", "gr_after_update", UpdEntered(cur))
            /\ UNCHANGED <<hw, run>>
    /\ UNCHANGED <<conditioning_key_set, size, p_buf, entropy, tr, aes_ret,
                   budget, sizes, be, seeded>>

\* if (r != 0) return -1; memcpy; size -= cur_len; p_buf += cur_len
GrAfterAes ==
    /\ pc = "gr_after_aes"
    /\ IF AesFailed(r)
       THEN /\ Ret(GenericFailure(r), cur)
            /\ size' = 0
            /\ p_buf' = p_buf
       ELSE /\ Goto("gr_loop", cur)
            /\ p_buf' = Copied(p_buf, SubSeq(cm.out, 1, CurLen(size)))
            /\ size' = size - CurLen(size)
    /\ cm' = [cm EXCEPT !.out = <<>>]
    /\ UNCHANGED <<prng, conditioning_key_set, upd, entropy, tr, aes_ret,
                   enabled, rng, fifo_rd, budget, sizes, be, seeded, run>>

\* if (r != 0) return -1; prng.reseed_counter += 1; return 0
GrAfterUpdate ==
    /\ pc = "gr_after_update"
    /\ IF r # 0
       THEN /\ Ret(-1, cur)
            /\ prng' = prng
       ELSE /\ prng' = Served(prng)
            /\ Ret(0, cur)
    /\ size' = 0
    /\ UNCHANGED <<conditioning_key_set, p_buf, upd, entropy, tr, aes_ret,
                   hw, budget, sizes, be, seeded, run>>

(* ---------------------------------------------------------------------- *)
(* Specification                                                           *)
(* ---------------------------------------------------------------------- *)
\* the statements of the three drivers, but for the return from the reseed
\* that get_random itself calls
DriverCore ==
    \/ GrEntry \/ GrInitChk \/ GrAfterInit \/ GrReseedChk
    \/ GrLoop \/ GrAfterAes \/ GrAfterUpdate
    \/ InEntry \/ InAfterReseed
    \/ RsEntry \/ RsAfterEntropy \/ RsAfterUpdate
    \/ UpLoop \/ UpAfterAes
    \/ AesPoll
    \/ GeEntry \/ TgFsm \/ TgKey \/ TgLevel

Driver == DriverCore \/ GrAfterReseed

HwRng == HwRngStartup \/ HwRngRun \/ HwRngFill \/ HwRngError

HwCm == HwCmFetchDone \/ HwCmPushDone \/ HwCmFetchError \/ HwCmPushError

\* the generator under callers of init() and get_random()
Next == CallInit \/ CallGetRandom \/ Driver \/ HwRng \/ HwCm

Spec == Init /\ [][Next]_vars

\* the TRNG driver alone, under callers of nrfx_cracen_rng_get_entropy
InitTrng ==
    /\ InitCommon
    /\ prng = PrngZero
    /\ seeded = FALSE
    /\ budget = [calls |-> MaxCalls + 1, cmFaults |-> 0,
                 rngErrors |-> MaxRngErrors + 1]
    /\ sizes = {}
    /\ be = BeIdle
    /\ run = RunNone

NextTrng ==
    \/ CallGetEntropy
    \/ GeEntry \/ TgFsm \/ TgKey \/ TgLevel
    \/ HwRng

SpecTrng == InitTrng /\ [][NextTrng]_vars

\* The driver is the thread that runs: its next statement is always taken.
\* The hardware is fair: a generator out of reset starts up and runs, a running
\* generator fills the FIFO while there is room, and a started job is fetched
\* and pushed unless it fails.  Failures stay unfair.
FairHw ==
    /\ WF_vars(HwRngStartup) /\ WF_vars(HwRngRun) /\ WF_vars(HwRngFill)
    /\ WF_vars(HwCmFetchDone) /\ WF_vars(HwCmPushDone)

(* be_incr on its own: a caller hands it a byte array and a size, it runs   *)
(* once.  The arrays are all the short ones over BeBytes, and 16-byte ones  *)
(* that end in a run of 0xFF; size covers the array or a front part of it,  *)
(* the bytes behind that part being the memory after it.                    *)
BeBytes == {0, 127, 255}

BeShort == UNION {[1..n -> BeBytes] : n \in 1..MaxBeLen}

BeWide ==
    {[i \in 1..AES_BLK_SZ |-> IF i > AES_BLK_SZ - k THEN 255 ELSE b] :
        k \in 0..AES_BLK_SZ, b \in {0, 254}}

InitBeIncr ==
    /\ InitCommon
    /\ prng = PrngZero
    /\ seeded = FALSE
    /\ budget = [calls |-> 0, cmFaults |-> 0, rngErrors |-> 0]
    /\ sizes = {}
    /\ run = RunNone
    /\ \E a \in BeShort \cup BeWide, n \in 1..AES_BLK_SZ :
          /\ n <= Len(a)
          /\ be = [v |-> a, size |-> n, entry |-> a, done |-> FALSE]

\* be_incr(v, size)
BeIncrCall ==
    /\ be.size > 0 /\ ~be.done
    /\ be' = [be EXCEPT !.v = BeIncr(@, be.size), !.done = TRUE]
    /\ UNCHANGED <<drv, hw, budget, sizes, hist>>

NextBeIncr == BeIncrCall

SpecBeIncr == InitBeIncr /\ [][NextBeIncr]_vars

\* one call from each of the generators of Init: whether a call returns does
\* not depend on the calls before it but through the state they leave
InitFair ==
    /\ InitCommon
    /\ prng \in PrngStates
    /\ seeded = prng.initialized
    /\ budget = [calls |-> 1, cmFaults |-> MaxCmFaults,
                 rngErrors |-> MaxRngErrors]
    /\ sizes = SmallSizes
    /\ be = BeIdle
    /\ run = RunNone

SpecFair == InitFair /\ [][Next]_vars /\ WF_vars(Driver) /\ FairHw

\* one call with a request size at the limit of get_random
InitBoundary ==
    /\ InitCommon
    /\ prng \in {p \in PrngStates : p = PrngZero \/ p.reseed_counter = U64One}
    /\ seeded = prng.initialized
    /\ budget = [calls |-> 1, cmFaults |-> MaxCmFaults,
                 rngErrors |-> MaxRngErrors]
    /\ sizes = BoundarySizes
    /\ be = BeIdle
    /\ run = RunNone

\* the generators of InitBoundary are not due for a reseed
NextBoundary == CallInit \/ CallGetRandom \/ DriverCore \/ HwRng \/ HwCm

SpecBoundary == InitBoundary /\ [][NextBoundary]_vars

(* ---------------------------------------------------------------------- *)
(* Two runs from power-up over the same noise: get_random alone, then,     *)
(* after a reset of the device, init() followed by the same get_random.    *)
(* run.first keeps what the first run left, run.log the entropy-source and *)
(* block cipher invocations of the run in progress.                        *)
(* ---------------------------------------------------------------------- *)
LazySizes == {0, AES_BLK_SZ + 1}

InitLazy ==
    /\ InitCommon
    /\ prng = PrngZero
    /\ seeded = FALSE
    /\ budget = [calls |-> 0, cmFaults |-> MaxCmFaults,
                 rngErrors |-> MaxRngErrors]
    /\ sizes = LazySizes
    /\ be = BeIdle
    /\ run = [RunNone EXCEPT !.phase = "start"]

\* first run: get_random on the uninitialised generator
LzLazyCall ==
    /\ pc = "idle" /\ run.phase = "start"
    /\ \E sz \in sizes :
          /\ size' = sz
          /\ cur' = Entered("get_random", sz, FALSE)
          /\ run' = [run EXCEPT !.phase = "lazy", !.size = sz]
    /\ p_buf' = BufAt(FALSE)
    /\ pc' = "gr_entry"
    /\ last' = CallNone
    /\ UNCHANGED <<prng, conditioning_key_set, stack, r, upd, entropy, tr,
                   aes_ret, hw, budget, sizes, be, seeded>>

\* the device is reset: static storage zeroed, peripherals in reset, and the
\* noise source replays its sequence
LzReboot ==
    /\ pc = "idle" /\ run.phase = "lazy"
    /\ run' = [run EXCEPT !.phase = "rebooted", !.log = <<>>,
                          !.first = [ret |-> last.ret, buf |-> p_buf,
                                     prng |-> prng, log |-> run.log,
                                     fault |-> last.fault_at # 0]]
    /\ prng' = PrngZero
    /\ seeded' = FALSE
    /\ conditioning_key_set' = FALSE
    /\ r' = 0 /\ size' = 0 /\ p_buf' = BufAt(TRUE)
    /\ tr' = TrIdle
    /\ enabled' = {} /\ rng' = RngOff /\ fifo_rd' = 0 /\ cm' = CmIdle
    /\ last' = CallNone
    /\ UNCHANGED <<pc, stack, upd, entropy, aes_ret, budget, sizes, be, cur>>

\* second run: init() ...
LzInitCall ==
    /\ pc = "idle" /\ run.phase = "rebooted"
    /\ run' = [run EXCEPT !.phase = "init"]
    /\ pc' = "in_entry"
    /\ cur' = Entered("init", 0, FALSE)
    /\ last' = CallNone
    /\ UNCHANGED <<prng, conditioning_key_set, stack, r, size, p_buf, upd,
                   entropy, tr, aes_ret, hw, budget, sizes, be, seeded>>

\* ... followed by the get_random of the first run
LzGenCall ==
    /\ pc = "idle" /\ run.phase = "init"
    /\ run' = [run EXCEPT !.phase = "explicit", !.init_ret = last.ret,
                          !.init_fault = last.fault_at # 0]
    /\ size' = run.size
    /\ p_buf' = BufAt(FALSE)
    /\ cur' = Entered("get_random", run.size, FALSE)
    /\ pc' = "gr_entry"
    /\ last' = CallNone
    /\ UNCHANGED <<prng, conditioning_key_set, stack, r, upd, entropy, tr,
                   aes_ret, hw, budget, sizes, be, seeded>>

NextLazy ==
    \/ LzLazyCall \/ LzReboot \/ LzInitCall \/ LzGenCall
    \/ DriverCore \/ HwRng \/ HwCm

SpecLazy == InitLazy /\ [][NextLazy]_vars

(* ---------------------------------------------------------------------- *)
(* Properties                                                              *)
(* ---------------------------------------------------------------------- *)
RECURSIVE BeAddAt(_, _, _)
\* reference arithmetic: carry added into byte i, then rippled towards byte 1;
\* the carry out of byte 1 is lost (mod 2^(8 * Len(v)))
BeAddAt(v, i, carry) ==
    IF i = 0 THEN v
    ELSE LET t == v[i] + carry
         IN BeAddAt([v EXCEPT ![i] = t % 256], i - 1, t \div 256)

\* the big-endian number v plus n
BeAdd(v, n) == BeAddAt(v, Len(v), n)

Returned(op) == pc = "idle" /\ last.op = op

U64Two == U64Inc(U64One)

NoHwError ==
    budget.cmFaults = MaxCmFaults /\ budget.rngErrors = MaxRngErrors

(* C1: get_random with (size > 0 and a NULL buffer) or with size above     *)
(* 65536 returns -2 without any entropy-source or block cipher invocation  *)
(* and leaves key, counter block, reseed_counter and initialized as they   *)
(* were, whatever the state of the generator; a request of exactly 65536   *)
(* bytes into a non-NULL buffer is not refused as invalid input.           *)
C1_InvalidInput ==
    Returned("get_random") =>
       /\ ((last.size > 0 /\ last.null) \/ last.size > MAX_BYTES_PER_REQUEST)
             => /\ last.ret = -2
                /\ last.n_entropy = 0 /\ last.n_aes = 0 /\ ~last.hw_used
                /\ prng = last.entry
                /\ <<enabled, rng, fifo_rd, cm>> = last.hw_entry
       /\ (last.size = MAX_BYTES_PER_REQUEST /\ ~last.null) => last.ret # -2

C1_Witness ==
    /\ Returned("get_random")
    /\ last.size = MAX_BYTES_PER_REQUEST + 1 /\ ~last.null
    /\ last.entry.initialized
    /\ last.ret = -2

(* C2 as stated: get_random(NULL, 0) returns 0, writes nothing and makes   *)
(* no entropy-source and no block cipher invocation, in every state.       *)
C2_Original ==
    (Returned("get_random") /\ last.size = 0 /\ last.null) =>
       /\ last.ret = 0
       /\ p_buf.off = 0
       /\ last.n_entropy = 0 /\ last.n_aes = 0

(* C2 as amended: get_random(NULL, 0) is not refused and writes nothing    *)
(* and encrypts no output block, but it is served like any request: one    *)
(* entropy-source invocation when the generator is uninitialised or due    *)
(* for a reseed (else none), then the update of 3 block cipher invocations *)
(* and reseed_counter + 1; it returns 0 unless the accelerator fails, and  *)
(* then -1.                                                                *)
C2_EmptyRequest ==
    (Returned("get_random") /\ last.size = 0 /\ last.null) =>
       /\ last.ret \in {0, -1}
       /\ p_buf.off = 0 /\ p_buf.mem = <<>> /\ last.n_out = 0
       /\ last.n_entropy =
             IF ~last.entry.initialized
                \/ U64Geq(last.entry.reseed_counter, RESEED_INTERVAL)
             THEN 1 ELSE 0
       /\ (last.ret = 0) = (last.fault_at = 0)
       /\ last.ret = 0 =>
             /\ last.n_aes = 3 * last.n_entropy + 3
             /\ prng.reseed_counter =
                   IF last.n_entropy = 1 THEN U64Two
                   ELSE U64Inc(last.entry.reseed_counter)

C2_Witness ==
    /\ Returned("get_random") /\ last.size = 0 /\ last.null
    /\ ~last.entry.initialized
    /\ last.ret = 0 /\ last.n_aes = 6 /\ last.n_entropy = 1

Calls == {c \in {cur, last} : c.op = "get_random" /\ c.entry.initialized}

C4_LazyEqualsExplicit ==
    (run.phase = "explicit" /\ pc = "idle" /\ NoHwError) =>
       /\ run.init_ret = 0
       /\ last.ret = run.first.ret
       /\ p_buf = run.first.buf
       /\ prng = run.first.prng
       /\ run.log = run.first.log

C4_Witness ==
    /\ run.phase = "explicit" /\ pc = "idle" /\ NoHwError
    /\ run.size = AES_BLK_SZ + 1
    /\ last.ret = 0 /\ p_buf.off = AES_BLK_SZ + 1
    /\ prng.initialized /\ prng.reseed_counter = U64Two
    /\ Len(run.log) = 1 + 3 + 2 + 3

(* C5 as stated: after a successful get_random without a reseed the        *)
(* counter block equals its value before the call plus the number of       *)
(* blocks encrypted in the call (mod 2^128).                               *)
C5_Original ==
    (Returned("get_random") /\ last.ret = 0 /\ last.n_entropy = 0) =>
       prng.V = BeAdd(last.entry.V, last.n_aes)

\* the block the cipher gives for the n-th increment of the counter block v
BlockAt(key, v, n) == CmAesEcb(key, BeAdd(v, n))

(* C5 as amended: the counter block counts blocks only up to the next      *)
(* update.  At every block cipher invocation the counter block equals its  *)
(* value at the last point where it was set (the start of the call, the    *)
(* zeroing of init, or the commit of an update) plus the number of blocks  *)
(* encrypted since (mod 2^128); the commit of the update then replaces it  *)
(* by cipher output, so that after a successful get_random without a       *)
(* reseed it is the encryption, under the key the call started with, of    *)
(* the starting value plus the number of blocks encrypted.                 *)
C5_CounterBlock ==
    /\ pc = "aes_poll" => prng.V = BeAdd(cur.v_base, cur.n_since)
    /\ (Returned("get_random") /\ last.ret = 0 /\ last.n_entropy = 0) =>
          /\ last.n_aes = last.n_out + 3
          /\ prng.V = BlockAt(last.entry.key, last.entry.V, last.n_aes)
          /\ prng.key = BlockAt(last.entry.key, last.entry.V, last.n_aes - 2)
                        \o BlockAt(last.entry.key, last.entry.V, last.n_aes - 1)

C5_Witness ==
    /\ pc = "aes_poll"
    /\ cur.op = "get_random" /\ cur.n_entropy = 0 /\ ~cur.rebased
    /\ cur.v_base = SeedV /\ cur.n_since = 2
    /\ prng.V = Zeros(AES_BLK_SZ)

(* C6: when the accelerator reports a fetch or push error on the N-th      *)
(* block cipher invocation of a get_random call with valid input, be it in *)
(* the update of the implicit init or reseed, in output generation or in   *)
(* the trailing update, the call returns -1, makes no block cipher         *)
(* invocation after the N-th, and CryptoMaster is disabled on return.      *)
C6_FaultIsolation ==
    /\ (cur.op = "get_random" /\ cur.fault_at > 0) => cur.n_aes = cur.fault_at
    /\ (Returned("get_random") /\ last.fault_at > 0) =>
          /\ last.ret = -1
          /\ last.n_aes = last.fault_at
          /\ "CRYPTOMASTER" \notin enabled

C6_Witness ==
    /\ Returned("get_random")
    /\ last.entry.initialized /\ last.n_entropy = 0
    /\ last.fault_at = 2 /\ last.n_out = 2
    /\ last.ret = -1
    /\ enabled = {}

(* C7: initialized is true only if a reseed has completed since the state  *)
(* was last zeroed.  When the reseed inside init fails, init returns       *)
(* non-zero and initialized stays false; get_random then returns -1        *)
(* without producing an output block; and reseed_counter is compared       *)
(* against the reseed interval only while initialized is true.             *)
C7_InitializedMeansSeeded ==
    /\ prng.initialized => seeded
    /\ pc \in {"gr_reseed_chk", "gr_after_reseed", "gr_loop", "gr_after_aes",
               "gr_after_update"} => prng.initialized
    /\ Returned("init") =>
          /\ (last.ret = 0) = (last.fault_at = 0)
          /\ prng.initialized = (last.ret = 0)
    /\ (/\ Returned("get_random") /\ ~last.entry.initialized
        /\ last.fault_at \in 1..3) =>
          /\ last.ret = -1
          /\ last.n_out = 0 /\ p_buf.off = 0
          /\ ~prng.initialized

C7_Witness ==
    /\ Returned("get_random") /\ ~last.entry.initialized
    /\ last.size = AES_BLK_SZ + 1 /\ ~last.null
    /\ last.n_entropy = 1 /\ last.fault_at = 2
    /\ last.ret = -1 /\ last.n_out = 0
    /\ ~prng.initialized /\ ~seeded

(* C8 as stated: once initialized has become true it is never false again, *)
(* over any sequence of init and get_random calls.                         *)
C8_Original == [][prng.initialized => prng'.initialized]_vars

(* C8 as amended: initialized goes from true to false only by the zeroing  *)
(* at the start of an init() called again on an initialised generator      *)
(* (init is documented as call-once); no get_random, successful or         *)
(* failing, with or without a reseed, ever clears it.                      *)
C8_OnlyInitClears ==
    [][(prng.initialized /\ ~prng'.initialized)
          => (pc = "in_entry" /\ cur.op = "init")]_vars

C8_Witness ==
    /\ Returned("get_random") /\ last.entry.initialized
    /\ last.entry.reseed_counter = RESEED_INTERVAL
    /\ last.n_entropy = 1 /\ last.fault_at = 1 /\ last.ret = -1
    /\ prng.initialized

(* C9: the RNG module is enabled exactly while get_entropy is executing    *)
(* and CryptoMaster exactly while aes_ecb_encrypt is executing, on every   *)
(* path (success, retry after a noise-generator ERROR, accelerator         *)
(* failure); whenever no public operation is executing both are disabled.  *)
C9_EnableScoped ==
    /\ ("RNG" \in enabled) = (pc \in {"tg_fsm", "tg_key", "tg_level"})
    /\ ("CRYPTOMASTER" \in enabled) = (pc = "aes_poll")
    /\ pc = "idle" => enabled = {}

C9_Witness ==
    /\ Returned("get_random")
    /\ last.n_entropy = 1 /\ budget.rngErrors < MaxRngErrors
    /\ last.fault_at > 3 /\ last.ret = -1
    /\ enabled = {}

(* C10: get_entropy(size) returns -2 exactly when size is above            *)
(* (FIFOTHRESHOLD reset value + 1) * 16, and then without enabling the     *)
(* module, resetting the generator or reading the FIFO; for every size     *)
(* within the bound the only value it returns is 0, whatever RESET,        *)
(* STARTUP or ERROR states and FIFO levels it met.                         *)
C10_OnlyTooBigFails ==
    Returned("get_entropy") =>
          /\ (last.ret = ERR_TOO_BIG)
                = (last.size > (FIFOTHRESHOLD_ResetValue + 1) * 16)
          /\ last.ret = ERR_TOO_BIG =>
                /\ ~last.hw_used
                /\ <<enabled, rng, fifo_rd, cm>> = last.hw_entry
          /\ last.ret # ERR_TOO_BIG => last.ret = OK /\ Len(tr.dst) = last.size

C10_Witness ==
    /\ Returned("get_entropy")
    /\ last.size = ENTROPY_SIZE /\ last.ret = OK
    /\ budget.rngErrors < MaxRngErrors + 1
    /\ Len(tr.dst) = ENTROPY_SIZE

\* a get_random on an initialised generator that is due for a reseed
DueCalls ==
    {c \in Calls : U64Geq(c.entry.reseed_counter, RESEED_INTERVAL)
                   /\ ~InvalidInput(c.null, c.size)}

(* C11: a get_random with valid input that starts on an initialised        *)
(* generator with reseed_counter >= 2^48 completes exactly one reseed (one *)
(* acquisition of 48 bytes of entropy, the update over it with its 3 block *)
(* cipher invocations, reseed_counter := 1) before the first output block  *)
(* is encrypted; on success reseed_counter is 2 at return; when the reseed *)
(* fails the call returns -1 without an output block.                      *)
C11_ReseedFirst ==
    /\ \A c \in DueCalls :
          /\ c.n_entropy <= 1
          /\ c.n_out > 0 => c.n_entropy = 1 /\ c.n_aes >= 3 + c.n_out
    /\ (cur \in DueCalls /\ pc \in {"tg_fsm", "tg_key", "tg_level"}) =>
          tr.size = ENTROPY_SIZE /\ cur.n_aes = 0
    /\ (cur \in DueCalls /\ pc = "aes_poll" /\ Head(stack) = "gr_after_aes") =>
          prng.reseed_counter = U64One /\ cur.n_aes = 3 + cur.n_out
    /\ (last \in DueCalls /\ pc = "idle") =>
          /\ last.n_entropy = 1
          /\ last.ret = 0 => prng.reseed_counter = U64Two
          /\ last.fault_at \in 1..3 =>
                /\ last.ret = -1 /\ last.n_out = 0
                /\ prng.reseed_counter = last.entry.reseed_counter

C11_Witness ==
    /\ last \in DueCalls /\ pc = "idle"
    /\ last.size = AES_BLK_SZ + 1
    /\ last.fault_at = 3 /\ last.ret = -1 /\ last.n_out = 0

\* ctr_drbg_update has just returned to its caller
UpdateReturned == pc \in {"rs_after_update", "gr_after_update"}

\* block cipher invocations of the update that has just returned
UpdateBlocks == cur.n_aes - cur.upd_at

(* C12 as stated: update fails only if a block cipher call fails, and      *)
(* after a failing update key and counter block are what they were when    *)
(* the update was called, whichever of its three invocations failed.       *)
C12_Original ==
    (UpdateReturned /\ r # 0) =>
       /\ cur.fault_at = cur.n_aes
       /\ prng.key = cur.upd_entry.key
       /\ prng.V = cur.upd_entry.V

(* C12 as amended: update fails only if a block cipher call fails, and a   *)
(* failing update commits nothing of its cipher output: key is what it was *)
(* when the update was called; but the counter block, which is incremented *)
(* in place before each invocation, has been advanced by the number of     *)
(* invocations the update made, the failing one included (1, 2 or 3).      *)
C12_FailedUpdate ==
    UpdateReturned =>
       /\ (r # 0) = (cur.fault_at > 0)
       /\ r # 0 =>
             /\ r = -1
             /\ cur.fault_at = cur.n_aes
             /\ UpdateBlocks \in 1..3
             /\ prng.key = cur.upd_entry.key
             /\ prng.V = BeAdd(cur.upd_entry.V, UpdateBlocks)

C12_Witness ==
    /\ pc = "gr_after_update" /\ r = -1
    /\ cur.n_out = 2 /\ UpdateBlocks = 3
    /\ prng.key = cur.upd_entry.key
    /\ prng.V # cur.upd_entry.V

\* a get_random with valid input on an initialised generator not due for a
\* reseed
PlainCalls ==
    {c \in Calls : ~U64Geq(c.entry.reseed_counter, RESEED_INTERVAL)
                   /\ ~InvalidInput(c.null, c.size)}

BlocksFor(sz) == (sz + AES_BLK_SZ - 1) \div AES_BLK_SZ

RECURSIVE Keystream(_, _, _)
\* the first n output blocks under key from the counter block v, in a row
Keystream(key, v, n) ==
    IF n = 0 THEN <<>> ELSE Keystream(key, v, n - 1) \o BlockAt(key, v, n)

(* C13: a successful get_random(buf, size) on an initialised generator not *)
(* due for a reseed makes exactly ceil(size/16) output block cipher        *)
(* invocations, each on the counter block incremented once more and all    *)
(* under the key held at entry, and writes exactly size bytes; only then   *)
(* one update(NULL) of exactly 3 invocations replaces key and counter      *)
(* block; only then reseed_counter goes up by exactly 1.                   *)
C13_GenerateOrder ==
    /\ (cur \in PlainCalls /\ pc \notin {"gr_entry", "gr_init_chk"}) =>
          /\ cur.n_entropy = 0
          /\ prng.reseed_counter = cur.entry.reseed_counter
          /\ (pc = "aes_poll" /\ Head(stack) = "gr_after_aes") =>
                /\ cur.n_aes = cur.n_out
                /\ prng.key = cur.entry.key
                /\ prng.V = BeAdd(cur.entry.V, cur.n_out)
                /\ p_buf.off = AES_BLK_SZ * (cur.n_out - 1)
          /\ cur.n_aes > cur.n_out =>
                /\ cur.n_out = BlocksFor(cur.size)
                /\ p_buf.off = cur.size
                /\ cur.n_aes <= cur.n_out + 3
                /\ pc # "gr_after_update" => prng.key = cur.entry.key
    /\ (last \in PlainCalls /\ pc = "idle" /\ last.ret = 0) =>
          /\ last.n_out = BlocksFor(last.size)
          /\ p_buf.off = last.size
          /\ p_buf.mem = SubSeq(Keystream(last.entry.key, last.entry.V, last.n_out),
                                1, last.size)
          /\ last.n_aes = last.n_out + 3
          /\ prng.key # last.entry.key /\ prng.V # BeAdd(last.entry.V, last.n_aes)
          /\ prng.reseed_counter = U64Inc(last.entry.reseed_counter)

C13_Witness ==
    /\ last \in PlainCalls /\ pc = "idle" /\ last.ret = 0
    /\ last.size = AES_BLK_SZ + 1 /\ last.n_out = 2 /\ last.n_aes = 5
    /\ p_buf.off = AES_BLK_SZ + 1 /\ Len(p_buf.mem) = AES_BLK_SZ + 1

\* the 48 bytes the cipher produced in the update in progress: the blocks for
\* the three increments of the counter block the update found, under the key
\* it found
CipherOut == Keystream(cur.upd_entry.key, cur.upd_entry.V, 3)

\* the same, mixed with the entropy of the reseed in progress
CipherOutMixed == [i \in 1..ENTROPY_SIZE |-> Xor8(CipherOut[i], entropy[i], 8)]

\* the step is the commit at the end of ctr_drbg_update
AtCommit == pc = "up_loop" /\ upd.temp_length = ENTROPY_SIZE

(* C14 as stated: key and counter block only ever change to a byte-for-    *)
(* byte copy of the 48 bytes of cipher output of an update (bytes 0..31 to *)
(* key, 32..47 to the counter block), never to a value from another        *)
(* source.                                                                 *)
C14_Original ==
    [][(prng'.key # prng.key \/ prng'.V # prng.V) =>
          (AtCommit /\ prng'.key \o prng'.V = CipherOut)]_vars

(* C14 as amended: key changes only by the zeroing at the start of init    *)
(* and by the commit that ends a successful update; the counter block also *)
(* by the in-place increment before each block cipher invocation.  The     *)
(* commit copies bytes 0..31 of the update's 48-byte buffer to key and     *)
(* bytes 32..47 to the counter block; the buffer is the cipher output of   *)
(* the update's three blocks, in a reseed XORed with the 48 bytes of       *)
(* entropy.  Entropy never reaches key or counter block unmixed.           *)
C14_KeyAndVSources ==
    [][/\ prng'.key # prng.key =>
             \/ pc = "in_entry" /\ prng'.key = Zeros(KEY_SIZE)
             \/ AtCommit
       /\ prng'.V # prng.V =>
             \/ pc = "in_entry" /\ prng'.V = Zeros(AES_BLK_SZ)
             \/ AtCommit
             \/ pc' = "aes_poll" /\ prng'.V = BeAdd(prng.V, 1)
       /\ (AtCommit /\ pc' # pc) =>
             prng'.key \o prng'.V =
                IF Head(stack) = "rs_after_update" THEN CipherOutMixed
                ELSE CipherOut]_vars

C14_Witness ==
    /\ pc = "rs_after_update" /\ r = 0
    /\ Len(entropy) = ENTROPY_SIZE
    /\ prng.key \o prng.V = CipherOutMixed
    /\ prng.key \o prng.V # CipherOut
    /\ prng.key # SubSeq(entropy, 1, KEY_SIZE)

\* nrfx_cracen_rng_get_entropy is executing
InGetEntropy == pc \in {"tg_fsm", "tg_key", "tg_level"}

\* the 4 words the FIFO delivered first after the last cracen_trng_init
KeyWords(c) == [i \in 1..CONDITIONING_KEY_SIZE |-> FifoWord(c.rd_at_init + i - 1)]

(* C15: in get_entropy every (re)initialisation of the hardware, the one   *)
(* at the start of the call and the one after each ERROR, resets and       *)
(* reconfigures the generator and clears conditioning_key_set; after it    *)
(* the first 4 words drained, and only they, go to the conditioning key    *)
(* registers, once; and every byte returned comes from the words drained   *)
(* after them since the last (re)initialisation.                           *)
C15_ConditioningKey ==
    /\ InGetEntropy =>
          /\ cur.n_inits >= 1 /\ cur.n_keys <= 1
          /\ rng.enable
          /\ rng.off_timer = TRNG_OFF_TIMER_VAL /\ rng.clk_div = TRNG_CLK_DIV
          /\ rng.init_wait = TRNG_INIT_WAIT_VAL
          /\ rng.blocks = TRNG_NUMBER_128BIT_BLOCKS
          /\ conditioning_key_set = (cur.n_keys = 1)
          /\ IF conditioning_key_set
             THEN /\ rng.key = KeyWords(cur)
                  /\ fifo_rd = cur.rd_at_init + CONDITIONING_KEY_SIZE
             ELSE fifo_rd = cur.rd_at_init
          /\ tr.dst = <<>>
    /\ (Returned("get_entropy") /\ last.ret = OK) =>
          /\ conditioning_key_set /\ last.n_keys = 1
          /\ rng.key = KeyWords(last)
          /\ tr.dst = TrngDrain(<<>>, last.size,
                                last.rd_at_init + CONDITIONING_KEY_SIZE)
          /\ fifo_rd = last.rd_at_init + CONDITIONING_KEY_SIZE + WordsFor(last.size)

C15_Witness ==
    /\ Returned("get_entropy") /\ last.ret = OK
    /\ last.size = 5 /\ last.n_inits = 2
    /\ last.rd_at_init = CONDITIONING_KEY_SIZE
    /\ tr.dst = TrngDrain(<<>>, 5, 2 * CONDITIONING_KEY_SIZE)

\* the operation goes on polling and has taken nothing from the FIFO: no word
\* drained, no key register written, no byte written, no return
Waits ==
    /\ pc' \in {"tg_fsm", "tg_key", "tg_level"}
    /\ fifo_rd' = fifo_rd
    /\ rng'.key = rng.key /\ (conditioning_key_set' => conditioning_key_set)
    /\ tr'.dst = tr.dst /\ tr'.size = tr.size

CmError == cm.pending \cap CmErrorMask # {}

CmBusy == cm.busy \cap CmBusyMask # {}

\* nrfx_cracen_cm_aes_ecb has just returned to its caller
AesReturned == pc \in {"up_after_aes", "gr_after_aes"}

(* C17: aes_ecb_encrypt starts one job and polls: busy with no error       *)
(* pending, it keeps polling; an error pending, the call ends with a       *)
(* negative result even with busy bits set; it returns 0 only with no      *)
(* error pending and no busy bit set.  Either way the core has been soft   *)
(* reset and the module disabled when the function returns, and not        *)
(* before polling ends.                                                    *)
C17_PollOutcomes ==
    [][pc = "aes_poll" =>
          /\ "CRYPTOMASTER" \in enabled
          /\ (CmBusy /\ ~CmError) =>
                pc' = "aes_poll" /\ "CRYPTOMASTER" \in enabled'
          /\ CmError => pc' # "aes_poll"
          /\ pc' # "aes_poll" =>
                /\ pc' = Head(stack) /\ AesReturned'
                /\ r' = (IF CmError THEN -2 ELSE 0)
                /\ r' = 0 => ~CmBusy /\ cm.out = CmAesEcb(prng.key, prng.V)
                /\ cm'.busy = {} /\ cm'.pending = {}
                /\ "CRYPTOMASTER" \notin enabled'
                /\ cur'.n_aes = cur.n_aes]_vars

C17_Witness ==
    /\ AesReturned /\ r = -2
    /\ cur.fault_at = cur.n_aes /\ cur.n_aes = 2
    /\ cm.busy = {} /\ cm.pending = {}
    /\ "CRYPTOMASTER" \notin enabled

(* C18: with fair hardware every init and get_random call returns.  There  *)
(* is no timeout: get_entropy returns only once the key is programmed and  *)
(* the FIFO holds the words asked for, and aes_ecb only once the           *)
(* accelerator shows an error or no busy bit; so with hardware that never  *)
(* gets there the call never returns.                                      *)
C18_Termination ==
    /\ (pc # "idle") ~> (pc = "idle")
    /\ [][/\ (InGetEntropy /\ ~InGetEntropy') =>
                /\ pc = "tg_level" /\ conditioning_key_set
                /\ rng.level >= WordsFor(tr.size)
                /\ r' = OK
          /\ (pc = "aes_poll" /\ pc' # "aes_poll") => (CmError \/ ~CmBusy)]_vars

C18_Witness ==
    /\ Returned("get_random") /\ last.ret = 0
    /\ ~last.entry.initialized /\ last.size = AES_BLK_SZ + 1
    /\ budget.rngErrors = 0
    /\ last.n_inits = 1 + MaxRngErrors

\* the number of 0xFF bytes that end the first n bytes of v
TrailFF(v, n) ==
    CHOOSE k \in 0..n :
        /\ \A i \in (n - k + 1)..n : v[i] = 255
        /\ k < n => v[n - k] # 255

\* the n bytes read as one big-endian number, v[1] most significant
RECURSIVE BeVal(_, _)
BeVal(v, n) == IF n = 0 THEN 0 ELSE v[n] + 256 * BeVal(v, n - 1)

RECURSIVE Pow256(_)
Pow256(n) == IF n = 0 THEN 1 ELSE 256 * Pow256(n - 1)

(* C19: be_incr(v, n) leaves the n bytes holding (x + 1) mod 2^(8n), x the *)
(* big-endian number they held: the run of 0xFF bytes at the end becomes   *)
(* zero, the byte before it gains one, the bytes above are unchanged, and  *)
(* all-0xFF wraps to all-zero; nothing outside the n bytes changes.        *)
C19_BeIncrPlusOne ==
    be.done =>
        LET n == be.size
            k == TrailFF(be.entry, n)
        IN /\ Len(be.v) = Len(be.entry)
           /\ \A i \in 1..Len(be.v) :
                 be.v[i] = IF i > n THEN be.entry[i]
                           ELSE IF i > n - k THEN 0
                           ELSE IF i = n - k THEN be.entry[i] + 1
                           ELSE be.entry[i]
           /\ n <= 3 => BeVal(be.v, n) = (BeVal(be.entry, n) + 1) % Pow256(n)
           /\ SubSeq(be.v, 1, n) = BeAdd(SubSeq(be.entry, 1, n), 1)

C19_Witness ==
    /\ be.done /\ be.size = AES_BLK_SZ
    /\ be.entry = [i \in 1..AES_BLK_SZ |-> 255]
    /\ be.v = Zeros(AES_BLK_SZ)

\* the running call is a get_random that has started on an output block
Generating == cur.op = "get_random" /\ cur.n_out > 0

(* C20: whenever a public operation has returned and initialized is true,  *)
(* 1 <= reseed_counter <= RESEED_INTERVAL; while a get_random is producing *)
(* output blocks reseed_counter is below RESEED_INTERVAL; a get_random     *)
(* that fails leaves reseed_counter as it found it, or at the 1 a reseed   *)
(* of the same call set, and one that succeeds leaves it one above the     *)
(* value it served under.                                                   *)
C20_ReseedPolicy ==
    /\ (pc = "idle" /\ prng.initialized) =>
          /\ U64Geq(prng.reseed_counter, U64One)
          /\ U64Geq(RESEED_INTERVAL, prng.reseed_counter)
    /\ Generating => ~U64Geq(prng.reseed_counter, RESEED_INTERVAL)
    /\ (Returned("get_random") /\ last.ret # 0) =>
          \/ prng.reseed_counter = last.entry.reseed_counter
          \/ last.n_entropy >= 1 /\ prng.reseed_counter = U64One
    /\ (Returned("get_random") /\ last.ret = 0) =>
          prng.reseed_counter =
              IF last.n_entropy >= 1 THEN U64Two
              ELSE U64Inc(last.entry.reseed_counter)

C20_Witness ==
    /\ Returned("get_random") /\ last.ret = 0
    /\ last.entry.initialized /\ last.n_entropy = 0 /\ last.n_out > 0
    /\ last.entry.reseed_counter = U64Dec(RESEED_INTERVAL)
    /\ prng.reseed_counter = RESEED_INTERVAL

====
